---- MODULE Spec2Model ----
(***************************************************************************)
(* BaseWebSocketWorker (src/core/websocket_worker.py): a QThread that runs *)
(* an asyncio event loop with one main task, _maintain_connection(), and   *)
(* an owner thread that calls start(), stop() and mutates self.pairs.      *)
(*                                                                         *)
(* The main task is modelled from one await to the next: between two       *)
(* awaits asyncio runs the coroutine without interruption, and the only    *)
(* state another thread writes is _running and pairs.  A cancellation is   *)
(* delivered at the await the task is suspended at.                        *)
(*                                                                         *)
(* core.reconnect_strategy.ReconnectStrategy and the protocol adapters     *)
(* (_connect_and_subscribe, _update_subscriptions, the receive path that   *)
(* stamps _last_message_time) are not part of the sources at hand; they    *)
(* are modelled from their contracts in spec.md sections 4.2, 4.3 and 6.   *)
(***************************************************************************)
EXTENDS Integers, Sequences, FiniteSets, TLC

\* ---------------------------------------------------------------- bounds
MaxLog == 9            \* notifications recorded
RetryBudget == 2       \* max_retries of the bounded backoff policy
MaxDelay == 2          \* cap of the backoff delay, in clock units
MaxKlines == 1         \* kline fetches pending on the loop at a time

\* ------------------------------------------------------ program constants
connection_timeout == 5
ping_interval == 20
tick_period == 1

Unlimited == 0 - 1     \* max_retries of the unbounded backoff policy
Unset == 0 - 1         \* age of a time stamp that was never set
AllPairs == {"BTC-USD", "ETH-USD"}
\* the desired lists the owner chooses among: one pair, two pairs in both
\* orders, and a list with a duplicate
PairLists == {<<"BTC-USD">>, <<"BTC-USD", "ETH-USD">>, <<"ETH-USD", "BTC-USD">>,
              <<"BTC-USD", "BTC-USD">>}

DISCONNECTED == "disconnected"
CONNECTING == "connecting"
CONNECTED == "connected"
RECONNECTING == "reconnecting"
FAILED == "failed"
ConnectionState == {DISCONNECTED, CONNECTING, CONNECTED, RECONNECTING, FAILED}

VARIABLES
  thr,                    \* position of the worker thread in run()
  owner,                  \* position of the owner thread: "idle", or in stop() before line 238 ("stop") or 240 ("stop_call")
  running,                \* self._running
  loop,                   \* self._loop: "none", "new", "running", "stopped", "closed"
  main_task,              \* self._main_task: "none", or the await the coroutine is at, or its outcome
  cancel_scheduled,       \* a _cancel_task_safe callback is queued on the loop
  connection_state,       \* self._connection_state
  retry_count,            \* self._reconnect_strategy.retry_count
  max_retries,            \* budget of the backoff policy, Unlimited for the unbounded mode
  pairs,                  \* self.pairs, the desired list
  subscribed_pairs,       \* self._subscribed_pairs
  last_message_age,       \* time.time() - self._last_message_time, Unset while it is 0
  total_reconnect_count,  \* self._total_reconnect_count
  last_error,             \* self._last_error
  last_ping_age,          \* time.time() - last_ping_time
  sleep_left,             \* time left of the asyncio.sleep the task is in
  log,                    \* notifications emitted by connection_state_changed
  session_traffic,        \* a message has been received in the current session
  stop_called,            \* stop() has been called since start()
  retry_denied,           \* should_retry() has returned false
  kline_tasks,            \* fetch_klines_async tasks pending on the loop
  stop_raised             \* a call of stop() has raised

vars == <<thr, owner, running, loop, main_task, cancel_scheduled, connection_state,
          retry_count, max_retries, pairs, subscribed_pairs, last_message_age,
          total_reconnect_count, last_error, last_ping_age, sleep_left, log,
          session_traffic, stop_called, retry_denied, kline_tasks, stop_raised>>

\* ---------------------------------------------------------------- helpers
Min(a, b) == IF a <= b THEN a ELSE b

RECURSIVE Pow2(_)
Pow2(n) == IF n <= 0 THEN 1 ELSE 2 * Pow2(n - 1)

\* set(current_pairs)
ToSet(seq) == {seq[i] : i \in DOMAIN seq}

AwaitPoints == {"connect", "sleep", "update", "ping", "backoff"}
Outcomes == {"returned", "raised", "cancelled"}
\* the awaits of the inner loop: a session is up
SessionPoints == {"sleep", "update", "ping"}
InSession == main_task \in SessionPoints

\* The part of the state the worker's code writes, as a record, so that the
\* steps of one coroutine run can be composed.
Cur ==
  [connection_state |-> connection_state, retry_count |-> retry_count,
   subscribed_pairs |-> subscribed_pairs, total_reconnect_count |-> total_reconnect_count,
   last_error |-> last_error, last_ping_age |-> last_ping_age, main_task |-> main_task,
   sleep_left |-> sleep_left, log |-> log,
   session_traffic |-> session_traffic, retry_denied |-> retry_denied]

\* last_ping_time is a local of the inner loop and session_traffic speaks of
\* the current session: outside a session both are kept at their initial value.
Commit(s) ==
  /\ Len(s.log) <= MaxLog
  /\ connection_state' = s.connection_state
  /\ retry_count' = s.retry_count
  /\ subscribed_pairs' = s.subscribed_pairs
  /\ total_reconnect_count' = s.total_reconnect_count
  /\ last_error' = s.last_error
  /\ last_ping_age' = IF s.main_task \in SessionPoints THEN s.last_ping_age ELSE 0
  /\ main_task' = s.main_task
  /\ sleep_left' = s.sleep_left
  /\ log' = s.log
  /\ session_traffic' = (s.main_task \in SessionPoints /\ s.session_traffic)
  /\ retry_denied' = s.retry_denied

\* ------------------------------------------------- ReconnectStrategy
should_retry(s) == max_retries = Unlimited \/ s.retry_count < max_retries

\* the delay next_delay() returns, and the strategy after the call
delay_of(s) == Min(Pow2(s.retry_count), MaxDelay)

next_delay(s) == [s EXCEPT !.retry_count = @ + 1]

reset(s) == [s EXCEPT !.retry_count = 0]

\* ------------------------------------------------- BaseWebSocketWorker
\* line 61-67
update_connection_state(s, state, message) ==
  [s EXCEPT !.connection_state = state,
            !.log = Append(@, [state |-> state, message |-> message,
                               retry_count |-> IF state = RECONNECTING THEN s.retry_count ELSE 0])]

\* line 135-145: the head of the outer loop up to the await of the connect
OuterLoop(s) ==
  IF running
  THEN [update_connection_state(s, CONNECTING, "attempt") EXCEPT !.main_task = "connect"]
  ELSE [s EXCEPT !.main_task = "returned"]

\* line 154-155: the head of the inner loop up to the await of the tick sleep
InnerLoop(s) ==
  IF running
  THEN [s EXCEPT !.main_task = "sleep", !.sleep_left = tick_period]
  ELSE OuterLoop(s)

\* the test of should_retry() inverted
HandleException_Inverted(s) ==
  LET e == [s EXCEPT !.last_error = "exception"] IN
  IF ~should_retry(e)
  THEN LET r == update_connection_state([e EXCEPT !.retry_denied = TRUE], RECONNECTING, "error") IN
       LET c == [r EXCEPT !.total_reconnect_count = @ + 1] IN
       [next_delay(c) EXCEPT !.sleep_left = delay_of(c), !.main_task = "backoff"]
  ELSE [update_connection_state(e, FAILED, "max_retries") EXCEPT !.main_task = "raised"]

\* line 181-196: except Exception
HandleException(s) ==
  LET e == [s EXCEPT !.last_error = "exception"] IN
  IF should_retry(e)
  THEN LET r == update_connection_state(e, RECONNECTING, "error") IN
       LET c == [r EXCEPT !.total_reconnect_count = @ + 1] IN
       [next_delay(c) EXCEPT !.sleep_left = delay_of(c), !.main_task = "backoff"]
  ELSE [update_connection_state(e, FAILED, "max_retries")
          EXCEPT !.retry_denied = TRUE, !.main_task = "raised"]

\* the test _last_message_time > 0 left out: an unset stamp is the epoch
HeartbeatCheck_NoSetTest(s) ==
  IF last_message_age = Unset \/ last_message_age > connection_timeout
  THEN OuterLoop(update_connection_state([s EXCEPT !.last_error = "heartbeat"],
                                         RECONNECTING, "heartbeat"))
  ELSE InnerLoop(s)

\* the comparison with the timeout not strict
HeartbeatCheck_NonStrict(s) ==
  IF last_message_age # Unset /\ last_message_age >= connection_timeout
  THEN OuterLoop(update_connection_state([s EXCEPT !.last_error = "heartbeat"],
                                         RECONNECTING, "heartbeat"))
  ELSE InnerLoop(s)

\* line 168-177: zombie detection, then the next round of the inner loop
HeartbeatCheck(s) ==
  IF last_message_age # Unset /\ last_message_age > connection_timeout
  THEN OuterLoop(update_connection_state([s EXCEPT !.last_error = "heartbeat"],
                                         RECONNECTING, "heartbeat"))
  ELSE InnerLoop(s)

\* line 163-166: the ping is due or not
PingCheck(s) ==
  IF s.last_ping_age > ping_interval
  THEN [s EXCEPT !.main_task = "ping"]
  ELSE HeartbeatCheck(s)

\* the desired list compared without set(): a duplicate counts as a difference
Reconcile_NoDedup(s) ==
  IF Len(pairs) # Cardinality(s.subscribed_pairs) \/ ToSet(pairs) # s.subscribed_pairs
  THEN [s EXCEPT !.main_task = "update"]
  ELSE PingCheck(s)

\* only the sizes compared
Reconcile_ByLength(s) ==
  IF Len(pairs) # Cardinality(s.subscribed_pairs)
  THEN [s EXCEPT !.main_task = "update"]
  ELSE PingCheck(s)

\* the ping tested before the subscriptions are reconciled
Reconcile_PingFirst(s) ==
  IF s.last_ping_age > ping_interval
  THEN [s EXCEPT !.main_task = "ping"]
  ELSE IF ToSet(pairs) # s.subscribed_pairs
       THEN [s EXCEPT !.main_task = "update"]
       ELSE HeartbeatCheck(s)

\* line 157-161: reconcile the subscriptions
Reconcile(s) ==
  IF ToSet(pairs) # s.subscribed_pairs
  THEN [s EXCEPT !.main_task = "update"]
  ELSE PingCheck(s)

\* ---------------------------------------------------------------- Init
\* line 45-59
Init ==
  /\ thr = "idle" /\ owner = "idle"
  /\ running = FALSE /\ loop = "none" /\ main_task = "none"
  /\ cancel_scheduled = FALSE
  /\ connection_state = DISCONNECTED
  /\ retry_count = 0
  /\ max_retries \in {Unlimited, RetryBudget}
  /\ pairs = <<"BTC-USD">>
  /\ subscribed_pairs = {}
  /\ last_message_age = Unset
  /\ total_reconnect_count = 0
  /\ last_error = ""
  /\ last_ping_age = 0
  /\ sleep_left = 0
  /\ log = <<>>
  /\ session_traffic = FALSE
  /\ stop_called = FALSE /\ retry_denied = FALSE
  /\ kline_tasks = 0 /\ stop_raised = FALSE

\* ---------------------------------------------------------------- owner thread
\* QThread.start()
Start ==
  /\ owner = "idle" /\ thr = "idle"
  /\ thr' = "run"
  /\ UNCHANGED <<owner, running, loop, main_task, cancel_scheduled, connection_state,
                 retry_count, max_retries, pairs, subscribed_pairs, last_message_age,
                 total_reconnect_count, last_error, last_ping_age, sleep_left, log,
                 session_traffic, stop_called, retry_denied, kline_tasks, stop_raised>>

\* the caller changes its own collection (spec.md section 6)
SetPairs(p) ==
  /\ owner = "idle" /\ thr # "idle" /\ p # pairs
  /\ pairs' = p
  /\ UNCHANGED <<thr, owner, running, loop, main_task, cancel_scheduled, connection_state,
                 retry_count, max_retries, subscribed_pairs, last_message_age,
                 total_reconnect_count, last_error, last_ping_age, sleep_left, log,
                 session_traffic, stop_called, retry_denied, kline_tasks, stop_raised>>

\* fetch_klines_async() returns or raises: nobody reads the future of
\* run_coroutine_threadsafe, so both outcomes leave the same state
FetchKlinesDone ==
  /\ loop = "running" /\ kline_tasks > 0
  /\ kline_tasks' = kline_tasks - 1
  /\ UNCHANGED <<thr, owner, running, loop, main_task, cancel_scheduled, connection_state,
                 retry_count, max_retries, pairs, subscribed_pairs, last_message_age,
                 total_reconnect_count, last_error, last_ping_age, sleep_left, log,
                 session_traffic, stop_called, retry_denied, stop_raised>>

\* the test of _loop.is_running() left out
RequestKlines_NoLoopTest ==
  /\ owner = "idle" /\ thr # "idle" /\ kline_tasks < MaxKlines
  /\ kline_tasks' = kline_tasks + 1
  /\ UNCHANGED <<thr, owner, running, loop, main_task, cancel_scheduled, connection_state,
                 retry_count, max_retries, pairs, subscribed_pairs, last_message_age,
                 total_reconnect_count, last_error, last_ping_age, sleep_left, log,
                 session_traffic, stop_called, retry_denied, stop_raised>>

\* request_klines(), line 228-233
RequestKlines ==
  /\ owner = "idle" /\ thr # "idle" /\ kline_tasks < MaxKlines
  /\ kline_tasks' = IF loop = "running" THEN kline_tasks + 1 ELSE kline_tasks
  /\ UNCHANGED <<thr, owner, running, loop, main_task, cancel_scheduled, connection_state,
                 retry_count, max_retries, pairs, subscribed_pairs, last_message_age,
                 total_reconnect_count, last_error, last_ping_age, sleep_left, log,
                 session_traffic, stop_called, retry_denied, stop_raised>>

\* stop(), line 237
StopFlag ==
  /\ owner = "idle" /\ thr # "idle"
  /\ running' = FALSE /\ owner' = "stop"
  /\ stop_called' = TRUE
  /\ UNCHANGED <<thr, loop, main_task, cancel_scheduled, connection_state,
                 retry_count, max_retries, pairs, subscribed_pairs, last_message_age,
                 total_reconnect_count, last_error, last_ping_age, sleep_left, log,
                 session_traffic, retry_denied, kline_tasks, stop_raised>>

\* stop(), line 238: the test of _loop.is_running()
StopCheck ==
  /\ owner = "stop"
  /\ owner' = IF loop = "running" THEN "stop_call" ELSE "idle"
  /\ UNCHANGED <<thr, running, loop, main_task, cancel_scheduled, connection_state,
                 retry_count, max_retries, pairs, subscribed_pairs, last_message_age,
                 total_reconnect_count, last_error, last_ping_age, sleep_left, log,
                 session_traffic, stop_called, retry_denied, kline_tasks, stop_raised>>

\* stop(), line 240: call_soon_threadsafe queues the callback, and raises
\* RuntimeError when the loop has been closed since the test
StopCancel ==
  /\ owner = "stop_call"
  /\ owner' = "idle"
  /\ cancel_scheduled' = (cancel_scheduled \/ loop # "closed")
  /\ stop_raised' = (stop_raised \/ loop = "closed")
  /\ UNCHANGED <<thr, running, loop, main_task, connection_state,
                 retry_count, max_retries, pairs, subscribed_pairs, last_message_age,
                 total_reconnect_count, last_error, last_ping_age, sleep_left, log,
                 session_traffic, stop_called, retry_denied, kline_tasks>>

\* ---------------------------------------------------------------- run()
\* what a step of the worker thread or of its loop leaves alone
WorkerFrame == UNCHANGED <<owner, max_retries, pairs, last_message_age, stop_called, stop_raised>>

\* line 96-98
RunBegin ==
  /\ thr = "run"
  /\ thr' = "setup" /\ running' = TRUE /\ loop' = "new"
  /\ Commit(Cur) /\ UNCHANGED <<cancel_scheduled, kline_tasks>> /\ WorkerFrame

\* line 100-106, up to the loop running the first step of the task
RunLoopStart ==
  /\ thr = "setup"
  /\ thr' = "loop" /\ loop' = "running"
  /\ Commit([reset(update_connection_state(Cur, CONNECTING, "init")) EXCEPT !.main_task = "new"])
  /\ UNCHANGED <<running, cancel_scheduled, kline_tasks>> /\ WorkerFrame

\* line 107-113: the except clauses of run()
RunExcept ==
  /\ thr = "loop" /\ loop = "stopped"
  /\ thr' = "finally"
  /\ Commit(CASE main_task = "cancelled" ->
                   update_connection_state(Cur, DISCONNECTED, "cancelled")
               [] main_task = "raised" ->
                   update_connection_state([Cur EXCEPT !.last_error = "exception"], FAILED, "fatal")
               [] OTHER -> Cur)
  /\ UNCHANGED <<running, loop, cancel_scheduled, kline_tasks>> /\ WorkerFrame

\* line 114-126 with no task pending (line 120 false): the loop is closed, and
\* with it the callbacks still queued are dropped
RunCleanup ==
  /\ thr = "finally" /\ kline_tasks = 0
  /\ thr' = "closing" /\ loop' = "closed" /\ cancel_scheduled' = FALSE
  /\ Commit(Cur) /\ UNCHANGED <<running, kline_tasks>> /\ WorkerFrame

\* line 117-121 with tasks pending: each task of the snapshot is cancelled and
\* the loop runs again until gather() has collected them; kline_tasks counts
\* from here the tasks that are not in the snapshot
RunCancelPending ==
  /\ thr = "finally" /\ kline_tasks > 0
  /\ thr' = "draining" /\ loop' = "running" /\ kline_tasks' = 0
  /\ Commit(Cur) /\ UNCHANGED <<running, cancel_scheduled>> /\ WorkerFrame

\* line 121-122: gather() is done, the loop stops and is closed
RunDrained ==
  /\ thr = "draining"
  /\ thr' = "closing" /\ loop' = "closed" /\ cancel_scheduled' = FALSE
  /\ Commit(Cur) /\ UNCHANGED <<running, kline_tasks>> /\ WorkerFrame

\* line 128
RunFinal ==
  /\ thr = "closing"
  /\ thr' = "done"
  /\ Commit(update_connection_state(Cur, DISCONNECTED, "closed"))
  /\ UNCHANGED <<running, loop, cancel_scheduled, kline_tasks>> /\ WorkerFrame

\* ---------------------------------------------------------------- the loop
\* a step of the main task that leaves it in state s
TaskStep(s) ==
  /\ Commit(s)
  /\ loop' = IF s.main_task \in Outcomes THEN "stopped" ELSE loop
  /\ UNCHANGED <<thr, running, cancel_scheduled, kline_tasks>> /\ WorkerFrame

TaskAt(a) == thr = "loop" /\ loop = "running" /\ main_task = a

\* line 242-245: the callback cancels the task, which raises CancelledError
\* at the await it is suspended at (line 179-180, or inside the handler)
CancelTaskSafe ==
  /\ thr = "loop" /\ loop = "running" /\ cancel_scheduled /\ main_task \in AwaitPoints
  /\ cancel_scheduled' = FALSE /\ loop' = "stopped"
  /\ Commit([Cur EXCEPT !.main_task = "cancelled"])
  /\ UNCHANGED <<thr, running, kline_tasks>> /\ WorkerFrame

\* the first step of _maintain_connection
TaskStart == TaskAt("new") /\ TaskStep(OuterLoop(Cur))

\* the adapter's handshake and initial subscribe succeed
connect_and_subscribe(s) == [s EXCEPT !.subscribed_pairs = ToSet(pairs), !.session_traffic = FALSE]

\* the adapter's incremental update succeeds
update_subscriptions(s) == [s EXCEPT !.subscribed_pairs = ToSet(pairs)]

\* the lifetime counter reset together with the backoff
ConnectSucceeds_ResetsCounter ==
  /\ TaskAt("connect")
  /\ TaskStep(InnerLoop([update_connection_state(reset(connect_and_subscribe(Cur)),
                                                  CONNECTED, "connected")
                           EXCEPT !.last_ping_age = 0, !.total_reconnect_count = 0]))

\* the reset() of line 147 left out
ConnectSucceeds_NoReset ==
  /\ TaskAt("connect")
  /\ TaskStep(InnerLoop([update_connection_state(connect_and_subscribe(Cur),
                                                  CONNECTED, "connected")
                           EXCEPT !.last_ping_age = 0]))

\* line 145-155
ConnectSucceeds ==
  /\ TaskAt("connect")
  /\ TaskStep(InnerLoop([update_connection_state(reset(connect_and_subscribe(Cur)),
                                                  CONNECTED, "connected")
                           EXCEPT !.last_ping_age = 0]))

ConnectFails == TaskAt("connect") /\ TaskStep(HandleException(Cur))

\* the task leaves the outer loop after the delay instead of retrying
BackoffElapsed_Returns ==
  TaskAt("backoff") /\ sleep_left = 0 /\ TaskStep([Cur EXCEPT !.main_task = "returned"])

\* line 191: the backoff delay has elapsed
BackoffElapsed == TaskAt("backoff") /\ sleep_left = 0 /\ TaskStep(OuterLoop(Cur))

\* line 155: the tick
SleepElapsed == TaskAt("sleep") /\ sleep_left = 0 /\ TaskStep(Reconcile(Cur))

UpdateSucceeds == TaskAt("update") /\ TaskStep(PingCheck(update_subscriptions(Cur)))

UpdateFails == TaskAt("update") /\ TaskStep(HandleException(Cur))

\* line 165-166
PingReturns ==
  TaskAt("ping") /\ TaskStep(HeartbeatCheck([Cur EXCEPT !.last_ping_age = 0]))

PingFails == TaskAt("ping") /\ TaskStep(HandleException(Cur))

\* ---------------------------------------------------------------- environment
\* an inbound protocol message stamps _last_message_time (spec.md section 4.3)
RecvMessage ==
  /\ loop = "running" /\ InSession
  /\ last_message_age' = 0 /\ session_traffic' = TRUE
  /\ UNCHANGED <<thr, owner, running, loop, main_task, cancel_scheduled, connection_state,
                 retry_count, max_retries, pairs, subscribed_pairs,
                 total_reconnect_count, last_error, last_ping_age, sleep_left, log,
                 stop_called, retry_denied, kline_tasks, stop_raised>>

\* One unit of time passes.  The code uses the clock only in the differences
\* time.time() - _last_message_time and time.time() - last_ping_time and in the
\* sleeps, so the model keeps the differences; a difference stops growing one
\* past the threshold it is compared with.
Older(age, threshold) == IF age = Unset THEN Unset ELSE Min(age + 1, threshold + 1)

Tick ==
  /\ loop = "running"
  /\ last_message_age' = Older(last_message_age, connection_timeout)
  /\ last_ping_age' = IF InSession THEN Older(last_ping_age, ping_interval) ELSE last_ping_age
  /\ sleep_left' = IF sleep_left > 0 THEN sleep_left - 1 ELSE 0
  /\ UNCHANGED <<thr, owner, running, loop, main_task, cancel_scheduled, connection_state,
                 retry_count, max_retries, pairs, subscribed_pairs,
                 total_reconnect_count, last_error, log,
                 session_traffic, stop_called, retry_denied, kline_tasks, stop_raised>>

Next ==
  \/ Start
  \/ \E p \in PairLists : SetPairs(p)
  \/ StopFlag
  \/ StopCheck
  \/ StopCancel
  \/ RunBegin
  \/ RunLoopStart
  \/ RunExcept
  \/ RunCleanup
  \/ RunFinal
  \/ CancelTaskSafe
  \/ TaskStart
  \/ ConnectSucceeds
  \/ ConnectFails
  \/ BackoffElapsed
  \/ SleepElapsed
  \/ UpdateSucceeds
  \/ UpdateFails
  \/ PingReturns
  \/ PingFails
  \/ RecvMessage
  \/ Tick

Spec == Init /\ [][Next]_vars

TypeOK ==
  /\ thr \in {"idle", "run", "setup", "loop", "finally", "draining", "closing", "done"}
  /\ owner \in {"idle", "stop", "stop_call"}
  /\ running \in BOOLEAN
  /\ loop \in {"none", "new", "running", "stopped", "closed"}
  /\ main_task \in {"none", "new"} \cup AwaitPoints \cup Outcomes
  /\ connection_state \in ConnectionState
  /\ retry_count \in 0..MaxLog
  /\ subscribed_pairs \subseteq AllPairs
  /\ pairs \in PairLists
  /\ last_message_age \in {Unset} \cup 0..(connection_timeout + 1)
  /\ last_ping_age \in 0..(ping_interval + 1)
  /\ Len(log) <= MaxLog
  /\ kline_tasks \in 0..MaxKlines

\* The worker thread and its loop are scheduled, time passes, and a stop()
\* that was entered runs to its end; the owner is never obliged to call
\* anything.
WorkerNext ==
  \/ RunBegin \/ RunLoopStart \/ RunExcept \/ RunCleanup \/ RunFinal
  \/ TaskStart \/ ConnectSucceeds \/ ConnectFails \/ BackoffElapsed \/ SleepElapsed
  \/ UpdateSucceeds \/ UpdateFails \/ PingReturns \/ PingFails

LiveSpec ==
  /\ Init /\ [][Next]_vars
  /\ WF_vars(WorkerNext) /\ WF_vars(CancelTaskSafe) /\ WF_vars(StopCheck) /\ WF_vars(StopCancel)
  /\ WF_vars(Tick)

\* the worker of a UI that leaves the list of pairs as it was constructed
ReconnectNext ==
  \/ Start
  \/ StopFlag
  \/ StopCheck
  \/ StopCancel
  \/ RunBegin
  \/ RunLoopStart
  \/ RunExcept
  \/ RunCleanup
  \/ RunFinal
  \/ CancelTaskSafe
  \/ TaskStart
  \/ ConnectSucceeds
  \/ ConnectFails
  \/ BackoffElapsed
  \/ SleepElapsed
  \/ PingReturns
  \/ PingFails
  \/ RecvMessage
  \/ Tick

ReconnectSpec ==
  /\ Init /\ [][ReconnectNext]_vars
  /\ WF_vars(WorkerNext) /\ WF_vars(CancelTaskSafe) /\ WF_vars(StopCheck) /\ WF_vars(StopCancel)
  /\ WF_vars(Tick)

\* the worker with kline requests of the UI thread, which leaves the list of
\* pairs as it was constructed
KlineNext ==
  \/ ReconnectNext
  \/ RequestKlines
  \/ FetchKlinesDone
  \/ RunCancelPending
  \/ RunDrained

KlineSpec == Init /\ [][KlineNext]_vars

\* the same with the UI changing the list of pairs
KlineFullSpec == Init /\ [][Next \/ KlineNext]_vars

\* ---------------------------------------------------------------- the notification stream
Count(state) == Cardinality({i \in DOMAIN log : log[i].state = state})

HasMessage(message) == \E i \in DOMAIN log : log[i].message = message

\* the notifications a step emits
Emitted == {log'[i] : i \in (Len(log) + 1)..Len(log')}

EmittedState(state) == \E n \in Emitted : n.state = state

EmittedMessage(message) == \E n \in Emitted : n.message = message

IsReconnecting(n) == n.state = RECONNECTING

\* the retry_count values of the Reconnecting notifications, in order
ReconnectCounts ==
  LET r == SelectSeq(log, IsReconnecting) IN [i \in DOMAIN r |-> r[i].retry_count]

\* the position of the last Connected notification before position i, 0 if none
LastConnectedBefore(i) ==
  LET c == {j \in 1..(i - 1) : log[j].state = CONNECTED} IN
  IF c = {} THEN 0 ELSE CHOOSE j \in c : \A k \in c : k <= j

\* the failures reported from the last Connected (or the start) up to position i
FailuresUpTo(i) ==
  Cardinality({j \in (LastConnectedBefore(i) + 1)..i : log[j].state = RECONNECTING})

\* a step of the model may be held back by the bound of the log from here on
LogFull == Len(log) >= MaxLog - 1

\* ---------------------------------------------------------------- claims
\* C1: on every shutdown path the observers receive exactly one Disconnected
\* notification between the start of run() and its return: never two while
\* run() executes, and one when it has returned.
C1_ExactlyOneDisconnected ==
  /\ Count(DISCONNECTED) <= 1
  /\ thr = "done" => Count(DISCONNECTED) = 1

\* C2: once stop() has been called after start(), the worker eventually has
\* returned from run() with Disconnected as its last notification (runs that
\* the bound of the log cuts short are excused).
C2_StopLeadsToDisconnected ==
  stop_called ~> (LogFull \/ (thr = "done" /\ log # <<>> /\ log[Len(log)].state = DISCONNECTED))

\* C3: once stop() has been called, no Failed notification is emitted.
C3_NoFailedAfterStop == [][stop_called => ~EmittedState(FAILED)]_vars

\* C4: the retry_count of every Reconnecting notification is the number of
\* consecutive failures, the reported one included, since the last Connected
\* (or the start), and retry_count is 0 whenever the state is Connected.
C4_RetryCountIsFailureCount ==
  /\ \A i \in DOMAIN log : log[i].state = RECONNECTING => log[i].retry_count = FailuresUpTo(i)
  /\ connection_state = CONNECTED => retry_count = 0

\* C5: with a budget of N and a handshake that fails from the start until the
\* budget is spent, the Reconnecting notifications carry 1, 2, ..., N in that
\* order before Failed.
C5_CountsOneToN ==
  (max_retries = RetryBudget /\ Count(CONNECTED) = 0 /\ Count(FAILED) > 0)
    => ReconnectCounts = [i \in 1..RetryBudget |-> i]

\* C6: a run in which should_retry() has returned false ends with exactly one
\* Failed notification.
C6_ExactlyOneFailed == (retry_denied /\ thr = "done") => Count(FAILED) = 1

\* C7: Failed is notified only when should_retry() has returned false, and
\* never in the unbounded mode.
C7_FailedOnlyAfterBudget ==
  /\ Count(FAILED) > 0 => retry_denied
  /\ max_retries = Unlimited => Count(FAILED) = 0

\* C7 witness: the budget was spent on failures and Failed was notified.
C7_Witness ==
  retry_denied /\ Count(FAILED) > 0 /\ Count(RECONNECTING) = RetryBudget /\ thr = "done"

\* C8: the heartbeat check tears down only a session that has received a message.
C8_TimeoutOnlyWithSessionTraffic == [][EmittedMessage("heartbeat") => session_traffic]_vars

\* C9: while _last_message_time has never been set, no heartbeat-timeout
\* Reconnecting has been notified.
C9_NoTimeoutWithoutMessage == last_message_age = Unset => ~HasMessage("heartbeat")

\* C9 witness: a tick has just run its checks in a session that is up for
\* longer than the silence timeout, and no message was ever received.
C9_Witness ==
  /\ last_message_age = Unset /\ main_task = "sleep" /\ sleep_left = tick_period
  /\ last_ping_age > connection_timeout /\ connection_state = CONNECTED

\* C10: every Reconnecting transition, heartbeat-detected or not, increases the
\* lifetime reconnect counter and the retry_count by 1 and is followed by the
\* backoff delay.
C10_ReconnectingAlwaysBacksOff ==
  [][EmittedState(RECONNECTING) =>
       /\ total_reconnect_count' = total_reconnect_count + 1
       /\ retry_count' = retry_count + 1
       /\ main_task' = "backoff"]_vars

\* C11: a failure of _send_ping() is swallowed: a step of the task out of the
\* await of the ping emits neither the Reconnecting nor the Failed of the
\* exception handler.
C11_PingFailureSwallowed ==
  [][main_task = "ping" => ~EmittedMessage("error") /\ ~EmittedMessage("max_retries")]_vars

\* C12: _update_subscriptions() is invoked only by the tick of a Connected
\* session whose desired set differs from the subscribed set, and every such
\* tick invokes it.
C12_UpdateIffSetsDiffer ==
  [][/\ (main_task' = "update" /\ main_task # "update")
          => /\ main_task = "sleep" /\ connection_state = CONNECTED
             /\ ToSet(pairs) # subscribed_pairs
     /\ (SleepElapsed /\ ToSet(pairs) # subscribed_pairs) => main_task' = "update"]_vars

\* C12 witness: the update is under way for a desired list in another order
\* than the pairs were subscribed in.
C12_Witness ==
  /\ main_task = "update" /\ connection_state = CONNECTED
  /\ pairs = <<"ETH-USD", "BTC-USD">> /\ subscribed_pairs = {"BTC-USD"}

\* C13: when the reconcile step of a tick is over (no update was needed, or
\* the update has succeeded), the subscribed set is the desired set.
C13_ConvergesWithinOneTick ==
  [][(SleepElapsed /\ main_task' # "update") \/ UpdateSucceeds
       => subscribed_pairs' = ToSet(pairs)]_vars

\* C13 witness: in the first session a tick is over and the subscribed set is
\* the set of a desired list of two pairs.
C13_Witness ==
  /\ connection_state = CONNECTED /\ main_task = "sleep" /\ sleep_left = tick_period
  /\ last_ping_age > 0 /\ Count(CONNECTED) = 1
  /\ pairs = <<"BTC-USD", "ETH-USD">> /\ subscribed_pairs = {"BTC-USD", "ETH-USD"}

\* C14: retry_count is 0 whenever the state becomes or stays Connected, it
\* grows by 1 with every failure that is retried, and it changes in no other
\* way than by 1 up or back to 0.
C14_ResetWithConnected ==
  [][/\ connection_state' = CONNECTED => retry_count' = 0
     /\ EmittedMessage("error") => retry_count' = retry_count + 1
     /\ retry_count' # retry_count => (retry_count' = retry_count + 1 \/ retry_count' = 0)]_vars

\* C14 witness: Connected after failed attempts, with the count back at 0.
C14_Witness ==
  /\ connection_state = CONNECTED /\ retry_count = 0
  /\ Len(log) >= 2 /\ log[Len(log)].state = CONNECTED
  /\ Count(RECONNECTING) = 2 /\ ~HasMessage("heartbeat")

\* the transitions of the session loop (spec.md section 4.5)
Allowed(a, b) ==
  \/ <<a, b>> \in {<<DISCONNECTED, CONNECTING>>, <<CONNECTING, CONNECTED>>,
                   <<CONNECTING, RECONNECTING>>, <<CONNECTING, FAILED>>,
                   <<CONNECTED, RECONNECTING>>, <<RECONNECTING, CONNECTING>>}
  \/ b = DISCONNECTED

\* C15: every notification follows its predecessor (Disconnected before the
\* first) by a transition of the diagram, and no state is notified twice in a
\* row.
C15_FollowsDiagram ==
  \A i \in DOMAIN log :
    LET a == IF i = 1 THEN DISCONNECTED ELSE log[i - 1].state IN
    Allowed(a, log[i].state) /\ a # log[i].state

\* C16: the first attempt is made by the first step of the task, without a
\* delay; a delay begins only with the Reconnecting of a failure; and every
\* attempt that follows a Reconnecting is made when a delay has elapsed.
C16_DelayBeforeEveryRetry ==
  [][/\ \A i \in (Len(log) + 1)..Len(log') :
          (log'[i].message = "attempt" /\ i > 1)
            => /\ log'[i - 1].message = "init" => main_task = "new"
               /\ log'[i - 1].state = RECONNECTING => main_task = "backoff"
     /\ (main_task' = "backoff" /\ main_task # "backoff") => EmittedState(RECONNECTING)]_vars

\* C17: a step that adds or removes a kline task leaves the connection state,
\* the retry_count, the reconnect counter, the subscribed set, the main task
\* and the notifications alone, and request_klines() without a running loop
\* changes nothing.
C17_KlinesLeaveConnectionAlone ==
  [][/\ kline_tasks' # kline_tasks
          => UNCHANGED <<connection_state, retry_count, total_reconnect_count,
                         subscribed_pairs, main_task, log>>
     /\ (RequestKlines /\ loop # "running") => UNCHANGED vars]_vars

\* C17 witness: a kline fetch is pending while the session is up.
C17_Witness == kline_tasks > 0 /\ InSession /\ connection_state = CONNECTED

\* C18: stop() never raises, and a stop() that follows an earlier stop() finds
\* _running as the earlier one left it.
C18_StopIdempotent ==
  [][/\ ~stop_raised'
     /\ (stop_called /\ owner = "idle" /\ owner' = "stop") => running' = running]_vars

\* the step ran the heartbeat check of a tick
HeartbeatStep ==
  (SleepElapsed \/ UpdateSucceeds \/ PingReturns) /\ main_task' \notin {"update", "ping"}

\* C19: a heartbeat check with a stamp older than the timeout emits the
\* heartbeat Reconnecting and leaves the inner loop; with a stamp of at most
\* the timeout it emits nothing and the state stays Connected.
C19_StrictTimeout ==
  [][(HeartbeatStep /\ last_message_age # Unset)
       => IF last_message_age > connection_timeout
          THEN EmittedMessage("heartbeat") /\ main_task' \notin SessionPoints
          ELSE Emitted = {} /\ connection_state' = CONNECTED]_vars

\* C19 witness: a check has just run on a stamp of exactly the timeout and the
\* session goes on.
C19_Witness ==
  /\ last_message_age = connection_timeout /\ session_traffic
  /\ main_task = "sleep" /\ sleep_left = tick_period /\ last_ping_age > 0
  /\ connection_state = CONNECTED

\* C20: a worker in Reconnecting that is not stopped gets to Connecting (runs
\* that the bound of the log cuts short are excused), and while stop() was not
\* called the Reconnecting of a heartbeat timeout is followed at once by the
\* Connecting of the next attempt.
C20_ReconnectingLeadsToConnecting ==
  /\ (connection_state = RECONNECTING /\ ~stop_called)
       ~> (connection_state = CONNECTING \/ stop_called \/ LogFull)
  /\ [](\A i \in DOMAIN log :
         (log[i].message = "heartbeat" /\ ~stop_called)
           => (i < Len(log) /\ log[i + 1].message = "attempt"))

\* C20 witness: the attempt that follows a Reconnecting has been started, and
\* stop() was not called.
C20_Witness ==
  /\ ~stop_called /\ Len(log) >= 2 /\ main_task = "connect"
  /\ log[Len(log)].message = "attempt" /\ log[Len(log) - 1].state = RECONNECTING

\* C21: in a tick the ping is awaited only when the reconcile step is over and
\* the ping is due, and it is awaited whenever it is due then; the silence
\* check runs only when the reconcile step and the ping step are over; a
\* failed reconcile call is followed by neither; and a silence detection
\* leaves the inner loop.
C21_TickOrder ==
  [][/\ (main_task' = "ping" /\ main_task # "ping")
          => /\ main_task \in {"sleep", "update"} /\ last_ping_age > ping_interval
             /\ subscribed_pairs' = ToSet(pairs)
     /\ ((SleepElapsed /\ main_task' # "update") \/ UpdateSucceeds)
          => (last_ping_age > ping_interval <=> main_task' = "ping")
     /\ main_task = "ping" => main_task' # "update"
     /\ EmittedMessage("heartbeat")
          => /\ main_task \in SessionPoints /\ main_task' \notin SessionPoints
             /\ main_task # "ping"
                  => subscribed_pairs' = ToSet(pairs) /\ last_ping_age <= ping_interval
     /\ UpdateFails => main_task' \notin SessionPoints /\ ~EmittedMessage("heartbeat")]_vars

\* C21 witness: a tick of a session with traffic has awaited its ping and
\* passed the silence check, with the subscriptions as desired.
C21_Witness ==
  /\ connection_state = CONNECTED /\ main_task = "sleep" /\ sleep_left = tick_period
  /\ session_traffic /\ last_message_age > 0 /\ last_ping_age = 0
  /\ pairs = <<"ETH-USD", "BTC-USD">> /\ subscribed_pairs = ToSet(pairs)

\* an awaited call of the adapter raises while retries remain
RetriedFailure == (ConnectFails \/ UpdateFails \/ PingFails) /\ should_retry(Cur)

C23_NoTaskPendingAtClose ==
  /\ loop = "closed" => kline_tasks = 0
  /\ HasMessage("closed") => loop = "closed"

====
